---- MODULE Spec2Model ----
(***************************************************************************)
(* Model of backup/src/mem_fns.rs: the AEABI copy and move routines for    *)
(* the ARM7TDMI (ARMv4T), at the level of the assembly they are written    *)
(* in.  One call is one behaviour: Init is the moment a public entry point *)
(* is entered with (dest, src, byte_count) in r0, r1, r2; every action is  *)
(* one straight-line stretch of the code or one iteration of a loop.       *)
(*                                                                         *)
(* Memory is the initial memory overlaid with the stores of the call.  The *)
(* byte at address a initially holds the token a, so where a byte value    *)
(* came from can be read off it; the code never inspects the data it       *)
(* moves.  mem maps the stored-to addresses to their tokens.               *)
(***************************************************************************)
EXTENDS Integers, Sequences, FiniteSets, TLC

VARIABLES
  entry,   \* the public entry point that was called
  dest,    \* its arguments
  src,
  count,
  pc,      \* label the processor is at
  lr,      \* link register: label to return to
  stk,     \* stack of pushed <<r0, lr>> pairs
  r0,      \* working dest pointer
  r1,      \* working src pointer
  r2,      \* working byte count
  mem,     \* stores made so far: address -> token
  loads,   \* addresses read so far
  stores,  \* addresses written so far
  raw,     \* addresses read after this call had written them
  hw,      \* what an UNPREDICTABLE odd halfword access does on this core
  cls,     \* class chosen by a general entry point (0: none yet)
  fixb,    \* parity of r0 when a fixup byte was moved (-1: no fixup byte)
  snap     \* the machine as the word routine was entered (on: it was)

vars == <<entry, dest, src, count, pc, lr, stk, r0, r1, r2, mem, loads,
          stores, raw, hw, cls, fixb, snap>>

\* ------------------------------------------------------------------ bounds

\* largest byte count of a call
MaxCount == 65
\* dest and src range over NearBase .. NearBase + MaxOff (and the far block)
MaxOff == 8

NearBase == 2 * 128
FarBase == 2 * 512
\* the token a rotated odd halfword load puts in the upper byte (a zero byte)
Zero == 0 - 1

\* ------------------------------------------------------- 32-bit arithmetic

\* A register holds a 32-bit word, written here as its two's-complement
\* value in -2^31 .. 2^31 - 1 (0xFFFFFFFF is -1).  Wrap brings a sum or a
\* difference of two words back into that range.
MinInt == (0 - 2147483647) - 1
MaxInt == 0 - (MinInt + 1)
Wrap(x) == IF x > MaxInt THEN (x - MaxInt - 1) + MinInt
           ELSE IF x < MinInt THEN (x - MinInt) + MaxInt + 1
           ELSE x
\* unsigned >= (cmp; the hs / cs condition)
UGE(a, b) == IF (a < 0) = (b < 0) THEN a >= b ELSE a < 0
\* bit i of the word (\div rounds down, so this is the two's-complement bit)
Bit(x, i) == (x \div (2 ^ i)) % 2
\* bic with a one-bit mask
BitClear(x, i) == x - Bit(x, i) * (2 ^ i)
\* lsl by 31: bit 0 moves to the sign bit
Lsl31(x) == IF Bit(x, 0) = 1 THEN MinInt ELSE 0
AlignDown(a, k) == a - (a % k)

\* ------------------------------------------------------------------ memory

Rd(m, a) == IF a \in DOMAIN m.mem THEN m.mem[a] ELSE a

\* One load followed by one store: la the n bus addresses read, vals the n
\* byte tokens the register(s) then hold, sa the base of the n bytes written.
Access(m, la, vals, sa) ==
  LET n == Len(vals)
      ws == {Wrap(sa + j) : j \in 0 .. n - 1}
  IN [m EXCEPT
        !.mem = [a \in DOMAIN m.mem \cup ws |->
                   IF a \in ws
                   THEN vals[1 + CHOOSE j \in 0 .. n - 1 : Wrap(sa + j) = a]
                   ELSE m.mem[a]],
        !.loads = m.loads \cup la,
        !.stores = m.stores \cup ws,
        !.raw = m.raw \cup (la \cap m.stores)]

\* ldrb / strb
XferByte(m, s, d) == Access(m, {s}, <<Rd(m, s)>>, d)

\* ldrh / strh.  At an even address the halfword is read and written in
\* place.  At an odd address both are UNPREDICTABLE on ARMv4T: the bus
\* access is to the containing aligned halfword; the register either holds
\* that halfword rotated by 8 (the addressed byte, then a zero byte) or the
\* halfword itself.
XferHalf(m, s, d) ==
  LET sb == AlignDown(s, 2)
      db == AlignDown(d, 2)
      vals == IF s % 2 = 0 THEN <<Rd(m, s), Rd(m, Wrap(s + 1))>>
              ELSE IF m.hw = "align" THEN <<Rd(m, sb), Rd(m, s)>>
              ELSE <<Rd(m, s), Zero>>
  IN Access(m, {sb, Wrap(sb + 1)}, vals, db)

\* ldr / str.  A misaligned ldr reads the containing aligned word rotated
\* right by 8 * (address % 4); str ignores the low two address bits.
XferWord(m, s, d) ==
  LET k == s % 4
      sb == s - k
  IN Access(m, {Wrap(sb + j) : j \in 0 .. 3},
            [j \in 1 .. 4 |-> Rd(m, Wrap(sb + ((j - 1 + k) % 4)))],
            AlignDown(d, 4))

\* ldm / stm of n \div 4 registers.  Both ignore the low two address bits.
XferMulti(m, s, d, n) ==
  LET sb == AlignDown(s, 4)
  IN Access(m, {Wrap(sb + j) : j \in 0 .. n - 1},
            [j \in 1 .. n |-> Rd(m, Wrap(sb + j - 1))],
            AlignDown(d, 4))

Xfer(m, kind, s, d, n) ==
  CASE kind = "b" -> XferByte(m, s, d)
    [] kind = "h" -> XferHalf(m, s, d)
    [] kind = "w" -> XferWord(m, s, d)
    [] kind = "m" -> XferMulti(m, s, d, n)

\* Post-indexed forward pair (ldr* rX, [r1], #n; str* rX, [r0], #n, and
\* ldm r1! / stm r0!): access at the pointers, then advance them by n.
CopyFwd(m, kind, n) ==
  [Xfer(m, kind, m.r1, m.r0, n) EXCEPT
     !.r0 = Wrap(m.r0 + n), !.r1 = Wrap(m.r1 + n)]

\* Pre-indexed backward pair (ldr* rX, [r1, #-n]!; str* rX, [r0, #-n]!, and
\* ldmdb r1! / stmdb r0!): step the pointers back by n, then access there.
CopyBwd(m, kind, n) ==
  [Xfer(m, kind, Wrap(m.r1 - n), Wrap(m.r0 - n), n) EXCEPT
     !.r0 = Wrap(m.r0 - n), !.r1 = Wrap(m.r1 - n)]

\* bx lr
Return(m) == [m EXCEPT !.pc = m.lr]

NoMem == [a \in {} |-> 0]
NoSnap == [on |-> FALSE, dir |-> "none", r0 |-> 0, r1 |-> 0, r2 |-> 0,
           mem |-> NoMem, loads |-> {}, stores |-> {}]
\* the arguments and the memory a routine is entered with
Entered(m, dir) ==
  [on |-> TRUE, dir |-> dir, r0 |-> m.r0, r1 |-> m.r1, r2 |-> m.r2,
   mem |-> m.mem, loads |-> m.loads, stores |-> m.stores]

\* ------------------------------------------------------ exclusive copies

\* __aeabi_memcpy1: the byte loop __aeabi_memcpy branches to.  Its body is
\* not in mem_fns.rs; it is the forward byte-granularity loop of the
\* design, written like the other narrow loops of the file.
Memcpy1Step(m) ==
  LET a == IF m.r2 >= 1 THEN CopyFwd(m, "b", 1) ELSE m
      b == [a EXCEPT !.r2 = Wrap(m.r2 - 1)]
  IN IF m.r2 > 1 THEN [b EXCEPT !.pc = "memcpy1_1"] ELSE Return(b)

\* __aeabi_memcpy2, one pass of the loop at "1:":
\*   subs count, count, #2 / ldrhge / strhge / bgt 1b
Memcpy2Step(m) ==
  LET a == IF m.r2 >= 2 THEN CopyFwd(m, "h", 2) ELSE m
      b == [a EXCEPT !.r2 = Wrap(m.r2 - 2)]
  IN [b EXCEPT !.pc = IF m.r2 > 2 THEN "memcpy2_1" ELSE "memcpy2_tail"]

\* __aeabi_memcpy2 after the loop: if byte_count != 0 { copy one byte }
Memcpy2Tail(m) ==
  Return(IF m.r2 # 0 THEN XferByte(m, m.r1, m.r0) ELSE m)

\* __aeabi_memcpy4 entry: when r2 >=u 32 { push {r4-r9}; block loop }
Memcpy4Entry(m) ==
  [m EXCEPT !.pc = IF UGE(m.r2, 32) THEN "memcpy4_1" ELSE "memcpy4_tail",
            !.snap = Entered(m, "fwd")]

\* __aeabi_memcpy4, one pass of the block loop:
\*   subs r2, r2, #32 / ldmge r1!, {r3-r9, r12} / stmge r0!, {..} / bgt 1b
\* and after it: pop {r4-r9} / bxeq lr
Memcpy4Block(m) ==
  LET a == IF m.r2 >= 32 THEN CopyFwd(m, "m", 32) ELSE m
      b == [a EXCEPT !.r2 = Wrap(m.r2 - 32)]
  IN IF m.r2 > 32 THEN [b EXCEPT !.pc = "memcpy4_1"]
     ELSE IF b.r2 = 0 THEN Return(b)
     ELSE [b EXCEPT !.pc = "memcpy4_tail"]

\* tst r2, #0b10000 / ldmne, stmne twice / bics r2, r2, #0b10000
Fwd16(m) ==
  LET a == IF Bit(m.r2, 4) = 1
           THEN CopyFwd(CopyFwd(m, "m", 8), "m", 8) ELSE m
  IN [a EXCEPT !.r2 = BitClear(m.r2, 4)]

\* lsls r3, r2, #29 / ldmcs, stmcs (bit 3) / ldrmi, strmi (bit 2)
\* / bics r2, r2, #0b1100
Fwd8and4(m) ==
  LET a == IF Bit(m.r2, 3) = 1 THEN CopyFwd(m, "m", 8) ELSE m
      b == IF Bit(m.r2, 2) = 1 THEN CopyFwd(a, "w", 4) ELSE a
  IN [b EXCEPT !.r2 = BitClear(BitClear(m.r2, 3), 2)]

\* lsls r3, r2, #31 / ldrhcs, strhcs (bit 1) / ldrbmi, strbmi (bit 0)
Fwd2and1(m) ==
  LET a == IF Bit(m.r2, 1) = 1 THEN CopyFwd(m, "h", 2) ELSE m
  IN IF Bit(m.r2, 0) = 1 THEN CopyFwd(a, "b", 1) ELSE a

\* __aeabi_memcpy4 below the block loop, with its bxeq lr exits
Memcpy4Tail(m) ==
  LET a == Fwd16(m)
      b == Fwd8and4(a)
  IN IF a.r2 = 0 THEN Return(a)
     ELSE IF b.r2 = 0 THEN Return(b)
     ELSE Return(Fwd2and1(b))

\* __aeabi_memcpy8: __aeabi_memcpy4(dest, src, byte_count)
Memcpy8(m) == [m EXCEPT !.pc = "__aeabi_memcpy4"]

\* eor r3, r0, r1 / lsls r3, r3, #31: bmi when bit 0 differs, bcs when
\* bit 1 differs: the widest unit both pointers can reach together
Coalign(a, b) ==
  IF Bit(a, 0) # Bit(b, 0) THEN 1
  ELSE IF Bit(a, 1) # Bit(b, 1) THEN 2
  ELSE 4

\* __aeabi_memcpy "max coalign4": lsls r3, r0, #31 sets N to bit 0 and C to
\* bit 1 of r0 once; submi/ldrbmi/strbmi, then subcs/ldrhcs/strhcs
FixupFwd4(m) ==
  LET a == IF Bit(m.r0, 0) = 1
           THEN [CopyFwd(m, "b", 1) EXCEPT !.r2 = Wrap(m.r2 - 1),
                                           !.fixb = m.r0 % 2]
           ELSE m
  IN IF Bit(m.r0, 1) = 1
     THEN [CopyFwd(a, "h", 2) EXCEPT !.r2 = Wrap(a.r2 - 2)]
     ELSE a

\* __aeabi_memcpy "max coalign2" at "2:": lsls r3, r0, #31 / submi / ldrbmi
\* / strbmi
FixupFwd2(m) ==
  IF Bit(m.r0, 0) = 1
  THEN [CopyFwd(m, "b", 1) EXCEPT !.r2 = Wrap(m.r2 - 1), !.fixb = m.r0 % 2]
  ELSE m

\* cmp r2, #7 / ble __aeabi_memcpy1: the small-count threshold
SmallCount(n) == n <= 7

\* __aeabi_memcpy up to its branch into one of the three loops
Memcpy(m) ==
  IF SmallCount(m.r2) \/ Coalign(m.r0, m.r1) = 1
  THEN [m EXCEPT !.pc = "__aeabi_memcpy1"]
  ELSE IF Coalign(m.r0, m.r1) = 2
  THEN [FixupFwd2(m) EXCEPT !.pc = "__aeabi_memcpy2", !.cls = 2]
  ELSE [FixupFwd4(m) EXCEPT !.pc = "__aeabi_memcpy4", !.cls = 4]

\* push {r0, lr} / bl <callee>
PushCall(m, callee, back) ==
  [m EXCEPT !.stk = <<[r0 |-> m.r0, lr |-> m.lr]>> \o m.stk,
            !.lr = back, !.pc = callee]

\* (mutant) only lr is popped: r0 is left where the callee moved it
PopReturnKeepsR0(m) ==
  LET top == Head(m.stk)
  IN [m EXCEPT !.lr = top.lr, !.stk = Tail(m.stk), !.pc = top.lr]

\* pop {r0, lr} / bx lr
PopReturn(m) ==
  LET top == Head(m.stk)
  IN [m EXCEPT !.r0 = top.r0, !.lr = top.lr, !.stk = Tail(m.stk),
               !.pc = top.lr]

\* memcpy: with_pushed_registers {r0, lr} { bl __aeabi_memcpy }
MemcpyStd(m) == PushCall(m, "__aeabi_memcpy", "memcpy_ret")

\* ------------------------------------------------- overlap-tolerant moves

\* reverse_copy_u8, one pass: subs count, #1 / ldrbge [src, #-1]!
\* / strbge [dest, #-1]! / bgt 1b
ReverseU8Step(m) ==
  LET a == IF m.r2 >= 1 THEN CopyBwd(m, "b", 1) ELSE m
      b == [a EXCEPT !.r2 = Wrap(m.r2 - 1)]
  IN IF m.r2 > 1 THEN [b EXCEPT !.pc = "reverse_u8_1"] ELSE Return(b)

\* reverse_copy_u16, one pass: subs count, #2 / ldrhge [src, #-2]!
\* / strhge [dest, #-2]! / bgt 1b
ReverseU16Step(m) ==
  LET a == IF m.r2 >= 2 THEN CopyBwd(m, "h", 2) ELSE m
      b == [a EXCEPT !.r2 = Wrap(m.r2 - 2)]
  IN [b EXCEPT !.pc = IF m.r2 > 2 THEN "reverse_u16_1" ELSE "reverse_u16_tail"]

\* reverse_copy_u16 after the loop: if byte_count != 0 { copy the byte at
\* dest.sub(1) from src.sub(1) }
ReverseU16Tail(m) ==
  Return(IF m.r2 # 0 THEN XferByte(m, Wrap(m.r1 - 1), Wrap(m.r0 - 1)) ELSE m)

\* reverse_copy_u32 entry: when r2 >=u 32 { push {r4-r9}; block loop }
ReverseU32Entry(m) ==
  [m EXCEPT !.pc = IF UGE(m.r2, 32) THEN "reverse_u32_1"
                   ELSE "reverse_u32_tail",
            !.snap = Entered(m, "bwd")]

\* reverse_copy_u32, one pass of the block loop:
\*   subs r2, r2, #32 / ldmdbcs r1! / stmdbcs r0! / bgt 1b
\* and after it: pop {r4-r9} / bxeq lr
ReverseU32Block(m) ==
  LET a == IF UGE(m.r2, 32) THEN CopyBwd(m, "m", 32) ELSE m
      b == [a EXCEPT !.r2 = Wrap(m.r2 - 32)]
  IN IF m.r2 > 32 THEN [b EXCEPT !.pc = "reverse_u32_1"]
     ELSE IF b.r2 = 0 THEN Return(b)
     ELSE [b EXCEPT !.pc = "reverse_u32_tail"]

\* (mutant) the 16-byte tier moves one register pair instead of two
Bwd16OnePair(m) ==
  LET a == IF Bit(m.r2, 4) = 1 THEN CopyBwd(m, "m", 8) ELSE m
  IN [a EXCEPT !.r2 = BitClear(m.r2, 4)]

\* tst r2, #0b10000 / ldmdbne, stmdbne twice / bics r2, r2, #0b10000
Bwd16(m) ==
  LET a == IF Bit(m.r2, 4) = 1
           THEN CopyBwd(CopyBwd(m, "m", 8), "m", 8) ELSE m
  IN [a EXCEPT !.r2 = BitClear(m.r2, 4)]

\* lsls r3, r2, #29 / ldmdbcs, stmdbcs (bit 3) / ldrmi, strmi (bit 2);
\* r2 is left as it was
Bwd8and4(m) ==
  LET a == IF Bit(m.r2, 3) = 1 THEN CopyBwd(m, "m", 8) ELSE m
  IN IF Bit(m.r2, 2) = 1 THEN CopyBwd(a, "w", 4) ELSE a

\* lsls r2, r2, #31 / ldrhcs, strhcs (bit 1) / ldrbmi, strbmi (bit 0)
Bwd2and1(m) ==
  LET a == IF Bit(m.r2, 1) = 1 THEN CopyBwd(m, "h", 2) ELSE m
      b == IF Bit(m.r2, 0) = 1 THEN CopyBwd(a, "b", 1) ELSE a
  IN [b EXCEPT !.r2 = Lsl31(m.r2)]

\* reverse_copy_u32 below the block loop.  The first bxeq lr follows the
\* bics; the second follows lsls r3, r2, #29, whose Z flag is set when the
\* low three bits of r2 are clear.
ReverseU32Tail(m) ==
  LET a == Bwd16(m)
      b == Bwd8and4(a)
  IN IF a.r2 = 0 THEN Return(a)
     ELSE IF a.r2 % 8 = 0 THEN Return(b)
     ELSE Return(Bwd2and1(b))

\* __aeabi_memmove "max coalign4", on the end pointers: lsls r3, r0, #31 /
\* submi, ldrbmi, strbmi / subcs, ldrhcs, strhcs
FixupBwd4(m) ==
  LET a == IF Bit(m.r0, 0) = 1
           THEN [CopyBwd(m, "b", 1) EXCEPT !.r2 = Wrap(m.r2 - 1),
                                           !.fixb = m.r0 % 2]
           ELSE m
  IN IF Bit(m.r0, 1) = 1
     THEN [CopyBwd(a, "h", 2) EXCEPT !.r2 = Wrap(a.r2 - 2)]
     ELSE a

\* __aeabi_memmove "max coalign2" at "2:": tst r0, #1 / sub r2, r2, #1
\* / ldrb r3, [r1, #-1]! / strb r3, [r0, #-1]!  (none of them conditional)
FixupBwd2(m) ==
  [CopyBwd(m, "b", 1) EXCEPT !.r2 = Wrap(m.r2 - 1), !.fixb = m.r0 % 2]

\* (mutant) back-to-front only when dest is strictly above src
BackwardStrict(d, s) == UGE(d, s) /\ d # s

\* (mutant) back-to-front when dest is below src
BackwardSwapped(d, s) == UGE(s, d)

\* when r0 >=u r1: copy back-to-front
Backward(d, s) == UGE(d, s)

\* __aeabi_memmove up to its branch into a loop or into __aeabi_memcpy
Memmove(m) ==
  LET e == [m EXCEPT !.r0 = Wrap(m.r0 + m.r2), !.r1 = Wrap(m.r1 + m.r2)]
  IN IF ~Backward(m.r0, m.r1) THEN [m EXCEPT !.pc = "__aeabi_memcpy"]
     ELSE IF Coalign(e.r0, e.r1) = 1
     THEN [e EXCEPT !.pc = "reverse_copy_u8"]
     ELSE IF Coalign(e.r0, e.r1) = 2
     THEN [FixupBwd2(e) EXCEPT !.pc = "reverse_copy_u16", !.cls = 2]
     ELSE [FixupBwd4(e) EXCEPT !.pc = "reverse_copy_u32", !.cls = 4]

\* __aeabi_memmove4: __aeabi_memmove(dest.cast(), src.cast(), byte_count)
Memmove4(m) == [m EXCEPT !.pc = "__aeabi_memmove"]

\* __aeabi_memmove8: __aeabi_memmove(dest.cast(), src.cast(), byte_count)
Memmove8(m) == [m EXCEPT !.pc = "__aeabi_memmove"]

\* memmove: with_pushed_registers {r0, lr} { bl __aeabi_memmove }
MemmoveStd(m) == PushCall(m, "__aeabi_memmove", "memmove_ret")

\* ------------------------------------------------------------- the calls

CopyEntries == {"__aeabi_memcpy2", "__aeabi_memcpy4", "__aeabi_memcpy8",
                "__aeabi_memcpy", "memcpy"}
MoveEntries == {"__aeabi_memmove4", "__aeabi_memmove8", "__aeabi_memmove",
                "memmove"}
Entries == CopyEntries \cup MoveEntries

\* the alignment an entry point requires of both pointers
AlignOf(e) ==
  CASE e = "__aeabi_memcpy2" -> 2
    [] e \in {"__aeabi_memcpy4", "__aeabi_memmove4"} -> 4
    [] e \in {"__aeabi_memcpy8", "__aeabi_memmove8"} -> 8
    [] OTHER -> 1

HwModes == {"rotate", "align"}

Near == {NearBase + i : i \in 0 .. MaxOff}
NearLow == {NearBase + i : i \in 0 .. 3}
Far == {FarBase + i : i \in 0 .. 3}
Pairs == (Near \X Near) \cup (NearLow \X Far) \cup (Far \X NearLow)

Disjoint(d, s, n) == d + n <= s \/ s + n <= d

\* The safety contract of the entry points: with a zero count the pointers
\* can be any value; otherwise both are aligned as the entry point requires
\* and, for the exclusive copies, the regions are disjoint or identical.
ValidCall(e, d, s, n) ==
  \/ n = 0
  \/ /\ d % AlignOf(e) = 0
     /\ s % AlignOf(e) = 0
     /\ e \in CopyEntries => (d = s \/ Disjoint(d, s, n))

\* the machine as a function is entered with (d, s, n)
Enter(e, d, s, n, h) ==
  [pc |-> e, lr |-> "done", stk |-> <<>>, r0 |-> d, r1 |-> s, r2 |-> n,
   mem |-> NoMem, loads |-> {}, stores |-> {}, raw |-> {}, hw |-> h,
   cls |-> 0, fixb |-> 0 - 1, snap |-> NoSnap]

Cur ==
  [pc |-> pc, lr |-> lr, stk |-> stk, r0 |-> r0, r1 |-> r1, r2 |-> r2,
   mem |-> mem, loads |-> loads, stores |-> stores, raw |-> raw, hw |-> hw,
   cls |-> cls, fixb |-> fixb, snap |-> snap]

Apply(n) ==
  /\ pc' = n.pc /\ lr' = n.lr /\ stk' = n.stk
  /\ r0' = n.r0 /\ r1' = n.r1 /\ r2' = n.r2
  /\ mem' = n.mem /\ loads' = n.loads /\ stores' = n.stores /\ raw' = n.raw
  /\ hw' = n.hw /\ cls' = n.cls /\ fixb' = n.fixb /\ snap' = n.snap
  /\ UNCHANGED <<entry, dest, src, count>>

Init ==
  /\ entry \in Entries
  /\ dest \in Near \cup Far
  /\ src \in Near \cup Far
  /\ <<dest, src>> \in Pairs
  /\ count \in 0 .. MaxCount
  /\ ValidCall(entry, dest, src, count)
  /\ pc = entry /\ lr = "done" /\ stk = <<>>
  /\ r0 = dest /\ r1 = src /\ r2 = count
  /\ mem = NoMem /\ loads = {} /\ stores = {} /\ raw = {}
  /\ hw = "unset" /\ cls = 0 /\ fixb = 0 - 1 /\ snap = NoSnap

DoMemcpyStd == pc = "memcpy" /\ Apply(MemcpyStd(Cur))
DoMemcpyRet == pc = "memcpy_ret" /\ Apply(PopReturn(Cur))
DoMemcpy == pc = "__aeabi_memcpy" /\ Apply(Memcpy(Cur))
DoMemcpy1 == pc \in {"__aeabi_memcpy1", "memcpy1_1"} /\ Apply(Memcpy1Step(Cur))
DoMemcpy2 == pc \in {"__aeabi_memcpy2", "memcpy2_1"} /\ Apply(Memcpy2Step(Cur))
DoMemcpy2Tail == pc = "memcpy2_tail" /\ Apply(Memcpy2Tail(Cur))
DoMemcpy4 == pc = "__aeabi_memcpy4" /\ Apply(Memcpy4Entry(Cur))
DoMemcpy4Block == pc = "memcpy4_1" /\ Apply(Memcpy4Block(Cur))
DoMemcpy4Tail == pc = "memcpy4_tail" /\ Apply(Memcpy4Tail(Cur))
DoMemcpy8 == pc = "__aeabi_memcpy8" /\ Apply(Memcpy8(Cur))

DoMemmoveStd == pc = "memmove" /\ Apply(MemmoveStd(Cur))
DoMemmoveRet == pc = "memmove_ret" /\ Apply(PopReturn(Cur))
DoMemmove == pc = "__aeabi_memmove" /\ Apply(Memmove(Cur))
DoMemmove4 == pc = "__aeabi_memmove4" /\ Apply(Memmove4(Cur))
DoMemmove8 == pc = "__aeabi_memmove8" /\ Apply(Memmove8(Cur))
DoReverseU8 ==
  pc \in {"reverse_copy_u8", "reverse_u8_1"} /\ Apply(ReverseU8Step(Cur))
\* The first halfword pair at odd pointers settles what this core does with
\* them, for the rest of the call.
DoReverseU16 ==
  /\ pc \in {"reverse_copy_u16", "reverse_u16_1"}
  /\ \E h \in (IF hw = "unset" /\ r0 % 2 = 1 /\ r2 >= 2 THEN HwModes ELSE {hw}) :
       Apply(ReverseU16Step([Cur EXCEPT !.hw = h]))
DoReverseU16Tail == pc = "reverse_u16_tail" /\ Apply(ReverseU16Tail(Cur))
DoReverseU32 == pc = "reverse_copy_u32" /\ Apply(ReverseU32Entry(Cur))
DoReverseU32Block == pc = "reverse_u32_1" /\ Apply(ReverseU32Block(Cur))
DoReverseU32Tail == pc = "reverse_u32_tail" /\ Apply(ReverseU32Tail(Cur))

Next ==
  \/ DoMemcpyStd \/ DoMemcpyRet \/ DoMemcpy \/ DoMemcpy1 \/ DoMemcpy2
  \/ DoMemcpy2Tail \/ DoMemcpy4 \/ DoMemcpy4Block \/ DoMemcpy4Tail
  \/ DoMemcpy8
  \/ DoMemmoveStd \/ DoMemmoveRet \/ DoMemmove \/ DoMemmove4 \/ DoMemmove8
  \/ DoReverseU8 \/ DoReverseU16 \/ DoReverseU16Tail
  \/ DoReverseU32 \/ DoReverseU32Block \/ DoReverseU32Tail

Spec == Init /\ [][Next]_vars

\* One step of the machine, whatever label it is at.
Step(m) ==
  CASE m.pc = "memcpy" -> MemcpyStd(m)
    [] m.pc = "memmove" -> MemmoveStd(m)
    [] m.pc \in {"memcpy_ret", "memmove_ret"} -> PopReturn(m)
    [] m.pc = "__aeabi_memcpy" -> Memcpy(m)
    [] m.pc \in {"__aeabi_memcpy1", "memcpy1_1"} -> Memcpy1Step(m)
    [] m.pc \in {"__aeabi_memcpy2", "memcpy2_1"} -> Memcpy2Step(m)
    [] m.pc = "memcpy2_tail" -> Memcpy2Tail(m)
    [] m.pc = "__aeabi_memcpy4" -> Memcpy4Entry(m)
    [] m.pc = "memcpy4_1" -> Memcpy4Block(m)
    [] m.pc = "memcpy4_tail" -> Memcpy4Tail(m)
    [] m.pc = "__aeabi_memcpy8" -> Memcpy8(m)
    [] m.pc = "__aeabi_memmove" -> Memmove(m)
    [] m.pc = "__aeabi_memmove4" -> Memmove4(m)
    [] m.pc = "__aeabi_memmove8" -> Memmove8(m)
    [] m.pc \in {"reverse_copy_u8", "reverse_u8_1"} -> ReverseU8Step(m)
    [] m.pc \in {"reverse_copy_u16", "reverse_u16_1"} -> ReverseU16Step(m)
    [] m.pc = "reverse_u16_tail" -> ReverseU16Tail(m)
    [] m.pc = "reverse_copy_u32" -> ReverseU32Entry(m)
    [] m.pc = "reverse_u32_1" -> ReverseU32Block(m)
    [] m.pc = "reverse_u32_tail" -> ReverseU32Tail(m)

RECURSIVE RunToEnd(_)
\* The machine when the call has returned.
RunToEnd(m) == IF m.pc = "done" THEN m ELSE RunToEnd(Step(m))

\* The finished run of entry point e called with this call's arguments, on
\* the same core.
Reference(e) == RunToEnd(Enter(e, dest, src, count, hw))

\* ------------------------------------------------------------ the claims

Done == pc = "done"
DestSpan == {dest + i : i \in 0 .. count - 1}
SrcSpan == {src + i : i \in 0 .. count - 1}
\* the byte now at address a
MemAt(a) == IF a \in DOMAIN mem THEN mem[a] ELSE a
\* every destination byte holds what its source byte held before the call
Copied == \A i \in 0 .. count - 1 : MemAt(dest + i) = src + i
\* every byte outside the destination span is as it was before the call
RestUntouched == \A a \in DOMAIN mem : a \in DestSpan \/ mem[a] = a
\* no byte of memory differs from what it was before the call
MemoryUnchanged == \A a \in DOMAIN mem : mem[a] = a

\* C1: when a call of the move family has returned, every destination byte
\* i holds the value source byte i had before the call (the result of
\* copying through a temporary buffer), and every byte outside
\* [dest, dest + count) is unchanged.
C1_MoveEqualsBufferedCopy ==
  (Done /\ entry \in MoveEntries) => (Copied /\ RestUntouched)

\* C2: when __aeabi_memcpy on disjoint regions has returned, dest[0..count)
\* equals the original src[0..count) and the source region is unmodified,
\* for every count and every pair of pointer alignments.
C2_CopyDisjointExact ==
  (Done /\ entry = "__aeabi_memcpy" /\ Disjoint(dest, src, count))
    => (Copied /\ \A a \in SrcSpan : MemAt(a) = a)

\* C3: a call with byte count 0, to any entry point and with any pointers,
\* never loads and never stores.
C3_ZeroCountNoAccess ==
  count = 0 => (loads = {} /\ stores = {})

\* C4: when a call has returned, the addresses written are exactly
\* [dest, dest + count) and every address read lies in [src, src + count).
C4_ExactSpans ==
  Done => (stores = DestSpan /\ loads \subseteq SrcSpan)

\* The word routine (__aeabi_memcpy4 or reverse_copy_u32) has returned
\* after being entered with both pointers 4-aligned and a count n that is
\* the length of a span (not a count a caller's fixup took below zero).
WordRoutineDone ==
  /\ snap.on
  /\ pc \in {"done", "memcpy_ret", "memmove_ret"}
  /\ snap.r0 % 4 = 0 /\ snap.r1 % 4 = 0
  /\ snap.r2 >= 0
\* lowest address of the span the word routine was asked to write / read
WordDest == IF snap.dir = "fwd" THEN snap.r0 ELSE snap.r0 - snap.r2
WordSrc == IF snap.dir = "fwd" THEN snap.r1 ELSE snap.r1 - snap.r2
WordDestSpan == {WordDest + i : i \in 0 .. snap.r2 - 1}
WordSrcSpan == {WordSrc + i : i \in 0 .. snap.r2 - 1}

\* C5: the word routines, forward and backward, entered with 4-aligned
\* pointers and byte count n, transfer exactly the n bytes of the span:
\* every byte of the destination span holds what its source byte held on
\* entry, as a byte-by-byte copy would leave it, every other byte is as on
\* entry, and nothing outside the two spans is stored to or loaded from.
C5_WordRoutineExact ==
  WordRoutineDone =>
    /\ \A i \in 0 .. snap.r2 - 1 : MemAt(WordDest + i) = Rd(snap, WordSrc + i)
    /\ \A a \in DOMAIN mem : a \in WordDestSpan \/ MemAt(a) = Rd(snap, a)
    /\ WordDestSpan \subseteq stores
    /\ stores \subseteq snap.stores \cup WordDestSpan
    /\ loads \subseteq snap.loads \cup WordSrcSpan

\* every tier of the backward word routine ran: two blocks of 32, then
\* 16, 8, 4, 2 and 1
C5_Witness ==
  /\ WordRoutineDone /\ snap.dir = "bwd"
  /\ snap.r2 > 32 /\ snap.r2 % 32 = 31
  /\ Cardinality(WordDestSpan \cap stores) = snap.r2

\* the general entry point of an alignment-tiered one
GeneralOf(e) ==
  IF e = "__aeabi_memmove4" THEN "__aeabi_memmove" ELSE "__aeabi_memcpy"

\* C6: when __aeabi_memcpy2 (pointers 2-aligned), __aeabi_memcpy4,
\* __aeabi_memcpy8 or __aeabi_memmove4 (pointers 4-aligned) has returned,
\* the final memory and the set of addresses accessed are those of the
\* general entry point of its family called with the same arguments.
C6_TieredEqualsGeneral ==
  (/\ Done
   /\ entry \in {"__aeabi_memcpy2", "__aeabi_memcpy4", "__aeabi_memcpy8",
                 "__aeabi_memmove4"}
   /\ dest % (IF entry = "__aeabi_memcpy2" THEN 2 ELSE 4) = 0
   /\ src % (IF entry = "__aeabi_memcpy2" THEN 2 ELSE 4) = 0)
    => LET g == Reference(GeneralOf(entry))
       IN mem = g.mem /\ loads \cup stores = g.loads \cup g.stores

\* the fast variant a standard-ABI variant is layered on
FastOf(e) == IF e = "memcpy" THEN "__aeabi_memcpy" ELSE "__aeabi_memmove"

\* C7: when memcpy or memmove has returned, r0 (the return value) is the
\* dest it was called with, and memory is as the fast variant called with
\* the same arguments leaves it.
C7_StdReturnsDest ==
  (Done /\ entry \in {"memcpy", "memmove"})
    => /\ r0 = dest
       /\ mem = Reference(FastOf(entry)).mem

\* memmove returned after the backward word path moved its pointers: a
\* fixup byte, a block of 32 and more
C7_Witness ==
  /\ Done /\ entry = "memmove" /\ r0 = dest
  /\ cls = 4 /\ fixb = 1 /\ snap.dir = "bwd" /\ count > 32
  /\ Cardinality(stores) >= count

\* C8: when a self-move (__aeabi_memmove or memmove with dest = src) has
\* returned, every byte of memory is unchanged.
C8_SelfMoveUnchanged ==
  (Done /\ entry \in {"__aeabi_memmove", "memmove"} /\ dest = src)
    => MemoryUnchanged

\* a self-move of more than a block at a pointer with low bits 11 returned,
\* having stored the whole span
C8_Witness ==
  /\ Done /\ entry = "__aeabi_memmove" /\ dest = src
  /\ dest % 4 = 3 /\ count > 32 /\ DestSpan \subseteq stores

\* C9: when a general entry point has chosen class 4 (class 2) and control
\* enters the word (halfword) routine, both working pointers are multiples
\* of 4 (of 2); and a fixup byte is moved only when the pointer is odd.
C9_AlignedAfterFixup ==
  /\ (pc \in {"__aeabi_memcpy4", "reverse_copy_u32"} /\ cls = 4)
       => (r0 % 4 = 0 /\ r1 % 4 = 0)
  /\ (pc \in {"__aeabi_memcpy2", "reverse_copy_u16"} /\ cls = 2)
       => (r0 % 2 = 0 /\ r1 % 2 = 0)
  /\ fixb # 0

ForwardLabels ==
  {"__aeabi_memcpy", "__aeabi_memcpy1", "memcpy1_1", "__aeabi_memcpy2",
   "memcpy2_1", "memcpy2_tail", "__aeabi_memcpy4", "memcpy4_1",
   "memcpy4_tail"}
BackwardLabels ==
  {"reverse_copy_u8", "reverse_u8_1", "reverse_copy_u16", "reverse_u16_1",
   "reverse_u16_tail", "reverse_copy_u32", "reverse_u32_1",
   "reverse_u32_tail"}

\* C10: in a call of the move family the backward routines run exactly
\* when dest >= src and the forward ones when dest < src, and no address
\* (of the source region or any other) is loaded after the call has stored
\* to it, at any step.
C10_NoLoadAfterStore ==
  entry \in MoveEntries =>
    /\ pc \in BackwardLabels => dest >= src
    /\ pc \in ForwardLabels => dest < src
    /\ raw = {}

\* a backward move of overlapping regions 4 apart went through fixup, a
\* block of 32 and the smaller tiers, and loaded addresses it later stored
C10_Witness ==
  /\ Done /\ entry = "__aeabi_memmove"
  /\ dest = src + 4 /\ count > 32 /\ count % 4 = 3 /\ (dest + count) % 4 = 3
  /\ snap.dir = "bwd" /\ Copied
  /\ loads \cap stores # {}

\* the labels of the halfword and word routines
WideLabels ==
  {"__aeabi_memcpy2", "memcpy2_1", "memcpy2_tail", "__aeabi_memcpy4",
   "memcpy4_1", "memcpy4_tail", "reverse_copy_u16", "reverse_u16_1",
   "reverse_u16_tail", "reverse_copy_u32", "reverse_u32_1",
   "reverse_u32_tail"}

\* C11: in a call of the general copy or the general move (either
\* direction) with a byte count at or below the small-count threshold, no
\* class is chosen and no fixup byte is moved, control never enters a
\* halfword or word routine, and the byte loop is entered with the whole
\* count still remaining (no fixup has taken anything off it).
C11_SmallCountByteLoopOnly ==
  (entry \in {"__aeabi_memcpy", "__aeabi_memmove"} /\ SmallCount(count))
    => /\ cls = 0 /\ fixb = 0 - 1
       /\ pc \notin WideLabels
       /\ pc \in {"__aeabi_memcpy1", "reverse_copy_u8"} => r2 = count

====
